---- MODULE Spec2Model ----
(***************************************************************************)
(* Model of scripts/weekly-summary.ts: the weekly commit summarizer.       *)
(*                                                                         *)
(* Text is a sequence of one-character strings.  NL is the line feed, and  *)
(* HD is one character that stands for the literal "diff --git" which the  *)
(* regular expression of splitPatchByFile looks for at the start of a      *)
(* line; every other character is ordinary, non-blank content.             *)
(***************************************************************************)
EXTENDS Integers, Sequences, FiniteSets, TLC

\* ------------------------------------------------------------------ bounds
MaxLines == 6        \* lines of a patch
MaxLimit == 4        \* DIFF_CHUNK_MAX_CHARS
MaxLog == 2          \* commits git lists for one branch
MaxAll == 3          \* commits git lists with --all
MaxBranchLimit == 1
MaxSliceLines == 3    \* lines of a patch of the step-by-step chunker
MaxSliceLimit == 3    \* DIFF_CHUNK_MAX_CHARS of the step-by-step chunker, from 0
MaxOut == 9           \* chunks after which the step-by-step slicing loop is cut  \* PER_BRANCH_LIMIT

\* ------------------------------------------------------------------ text
NL == "\n"
HD == "D"
SEP == <<NL, NL>>

Min(a, b) == IF a < b THEN a ELSE b
Max(a, b) == IF a > b THEN a ELSE b

IsWs(c) == c \in {NL, " "}

RECURSIVE trimStart(_)
trimStart(s) ==
  IF s # <<>> /\ IsWs(Head(s)) THEN trimStart(Tail(s)) ELSE s

RECURSIVE trimEnd(_)
trimEnd(s) ==
  IF s # <<>> /\ IsWs(s[Len(s)]) THEN trimEnd(SubSeq(s, 1, Len(s) - 1)) ELSE s

\* String.prototype.trim
trim(s) == trimEnd(trimStart(s))

\* Array.prototype.slice(i, j) on text, 0-based, end exclusive, 0 <= i
slice(s, i, j) == SubSeq(s, i + 1, Min(j, Len(s)))

RECURSIVE Flatten(_)
Flatten(ss) == IF ss = <<>> THEN <<>> ELSE Head(ss) \o Flatten(Tail(ss))

\* the lines of a text joined by line feeds
RECURSIVE JoinLines(_)
JoinLines(ls) ==
  IF ls = <<>> THEN <<>>
  ELSE IF Len(ls) = 1 THEN ls[1]
  ELSE ls[1] \o <<NL>> \o JoinLines(Tail(ls))

\* ------------------------------------------------------ splitPatchByFile
\* ^ with the m flag: at the start of the text or right after a line feed
AtLineStart(s, q) == q = 1 \/ s[q - 1] = NL

\* first position at or after q that holds a line feed, or Len(s) + 1:
\* where `.*$` stops
RECURSIVE LineEnd(_, _)
LineEnd(s, q) ==
  IF q > Len(s) \/ s[q] = NL THEN q ELSE LineEnd(s, q + 1)

\* patch.split(/^diff --git.*$/m): the text between the header lines; the
\* header lines themselves are not part of any piece
RECURSIVE splitHeaders(_, _, _)
splitHeaders(s, q, piece) ==
  IF q > Len(s) THEN <<piece>>
  ELSE IF AtLineStart(s, q) /\ s[q] = HD
       THEN <<piece>> \o splitHeaders(s, LineEnd(s, q), <<>>)
       ELSE splitHeaders(s, q + 1, Append(piece, s[q]))

\* .filter(Boolean) on an array of strings
RECURSIVE filterNonEmpty(_)
filterNonEmpty(ps) ==
  IF ps = <<>> THEN <<>>
  ELSE IF Head(ps) = <<>> THEN filterNonEmpty(Tail(ps))
  ELSE <<Head(ps)>> \o filterNonEmpty(Tail(ps))

splitPatchByFile(patch) ==
  IF patch = <<>> THEN <<>>
  ELSE LET parts == splitHeaders(patch, 1, <<>>)
       IN filterNonEmpty([n \in 1..Len(parts) |-> trim(parts[n])])

\* ----------------------------------------------------------- chunkBySize
candidateOf(b, p) == IF b # <<>> THEN b \o SEP \o p ELSE p

\* for (let i = 0; i < p.length; i += limit) out.push(p.slice(i, i + limit))
RECURSIVE slices(_, _, _)
slices(p, i, lim) ==
  IF i < Len(p) THEN <<slice(p, i, i + lim)>> \o slices(p, i + lim, lim)
  ELSE <<>>

\* chunkStep, testing the unit's length where the code tests the candidate's
chunkStepUnitOnly(o, b, p, lim) ==
  LET candidate == candidateOf(b, p)
      flushed == IF b # <<>> THEN Append(o, b) ELSE o
  IN IF Len(p) > lim
     THEN [out |-> flushed \o slices(p, 0, lim), buf |-> <<>>]
     ELSE [out |-> o, buf |-> candidate]

\* chunkStep, slicing the candidate where the code flushes the buffer
chunkStepSliceCandidate(o, b, p, lim) ==
  LET candidate == candidateOf(b, p)
  IN IF Len(candidate) > lim
     THEN [out |-> o \o slices(candidate, 0, lim), buf |-> <<>>]
     ELSE [out |-> o, buf |-> candidate]

\* chunkStep, without `buf = ""` after the slices
chunkStepKeepsBuf(o, b, p, lim) ==
  LET candidate == candidateOf(b, p)
      flushed == IF b # <<>> THEN Append(o, b) ELSE o
  IN IF Len(candidate) > lim
     THEN IF Len(p) > lim
          THEN [out |-> flushed \o slices(p, 0, lim), buf |-> b]
          ELSE [out |-> flushed, buf |-> p]
     ELSE [out |-> o, buf |-> candidate]

\* one iteration of the loop over parts
chunkStep(o, b, p, lim) ==
  LET candidate == candidateOf(b, p)
      flushed == IF b # <<>> THEN Append(o, b) ELSE o
  IN IF Len(candidate) > lim
     THEN IF Len(p) > lim
          THEN [out |-> flushed \o slices(p, 0, lim), buf |-> <<>>]
          ELSE [out |-> flushed, buf |-> p]
     ELSE [out |-> o, buf |-> candidate]

\* chunkFinish, without the last push
chunkFinishNoPush(o, b) == o

\* if (buf) out.push(buf); return out
chunkFinish(o, b) == IF b # <<>> THEN Append(o, b) ELSE o

RECURSIVE chunkLoop(_, _, _, _, _)
chunkLoop(o, b, ps, n, lim) ==
  IF n > Len(ps) THEN chunkFinish(o, b)
  ELSE LET st == chunkStep(o, b, ps[n], lim)
       IN chunkLoop(st.out, st.buf, ps, n + 1, lim)

chunkBySize(ps, lim) == chunkLoop(<<>>, <<>>, ps, 1, lim)

\* ------------------------------------------------------ Activity Collector
Shas == {"c1", "c2", "c3"}
Branches == {"origin/dev", "origin/main", "origin/rel"}

\* the code-unit order of the branch names, which Array.prototype.sort uses
BranchRank(b) ==
  CASE b = "origin/dev" -> 1
    [] b = "origin/main" -> 2
    [] b = "origin/rel" -> 3

Range(f) == {f[x] : x \in DOMAIN f}

\* list.slice(-n): a negative start counts from the end, and -0 is 0
sliceLast(list, n) ==
  LET start == 0 - n
      from == IF start < 0 THEN Max(Len(list) + start, 0)
              ELSE Min(start, Len(list))
  IN SubSeq(list, from + 1, Len(list))

\* branchToCommits.set(rb, list.slice(-PER_BRANCH_LIMIT)); the Map keeps the
\* insertion order of its keys
mapSet(m, rb, shas) ==
  IF \E n \in 1..Len(m) : m[n].rb = rb
  THEN [n \in 1..Len(m) |-> IF m[n].rb = rb THEN [rb |-> rb, shas |-> shas] ELSE m[n]]
  ELSE Append(m, [rb |-> rb, shas |-> shas])

\* Set.prototype.add on a Set kept in insertion order
setAdd(xs, x) == IF x \in Range(xs) THEN xs ELSE Append(xs, x)

\* the inner loop: for (const sha of shas) { ... shaToBranches.get(sha).add(rb) }
RECURSIVE addShas(_, _, _)
addShas(m, rb, shas) ==
  IF shas = <<>> THEN m
  ELSE LET sha == Head(shas)
           old == IF sha \in DOMAIN m THEN m[sha] ELSE <<>>
           m2 == [x \in DOMAIN m \cup {sha} |-> IF x = sha THEN setAdd(old, rb) ELSE m[x]]
       IN addShas(m2, rb, Tail(shas))

\* the outer loop: for (const [rb, shas] of branchToCommits)
RECURSIVE buildShaToBranches(_, _)
buildShaToBranches(m, b2c) ==
  IF b2c = <<>> THEN m
  ELSE buildShaToBranches(addShas(m, Head(b2c).rb, Head(b2c).shas), Tail(b2c))

\* filterShas, without the test on shaToBranches
RECURSIVE filterShasAnyBranch(_, _, _)
filterShasAnyBranch(all, seenSet, s2b) ==
  IF all = <<>> THEN <<>>
  ELSE LET sha == Head(all)
       IN IF sha \in seenSet THEN filterShasAnyBranch(Tail(all), seenSet, s2b)
          ELSE <<sha>> \o filterShasAnyBranch(Tail(all), seenSet \cup {sha}, s2b)

\* allShasOrdered.filter(...) with the `seen` set
RECURSIVE filterShas(_, _, _)
filterShas(all, seenSet, s2b) ==
  IF all = <<>> THEN <<>>
  ELSE LET sha == Head(all)
       IN IF sha \in seenSet THEN filterShas(Tail(all), seenSet, s2b)
          ELSE IF sha \notin DOMAIN s2b THEN filterShas(Tail(all), seenSet, s2b)
          ELSE <<sha>> \o filterShas(Tail(all), seenSet \cup {sha}, s2b)

\* Array.prototype.sort() on branch names
RECURSIVE insertSorted(_, _)
insertSorted(sorted, b) ==
  IF sorted = <<>> THEN <<b>>
  ELSE IF BranchRank(b) < BranchRank(Head(sorted)) THEN <<b>> \o sorted
  ELSE <<Head(sorted)>> \o insertSorted(Tail(sorted), b)

RECURSIVE sortBranches(_)
sortBranches(bs) ==
  IF bs = <<>> THEN <<>>
  ELSE insertSorted(sortBranches(SubSeq(bs, 1, Len(bs) - 1)), bs[Len(bs)])

\* metaOf, without .sort()
metaOfUnsorted(sha, s2b) ==
  [sha |-> sha,
   title |-> <<"title", sha>>,
   author |-> <<"author", sha>>,
   branches |-> IF sha \in DOMAIN s2b THEN s2b[sha] ELSE <<>>]

\* one element of commitMetas
metaOf(sha, s2b) ==
  [sha |-> sha,
   title |-> <<"title", sha>>,
   author |-> <<"author", sha>>,
   branches |-> sortBranches(IF sha \in DOMAIN s2b THEN s2b[sha] ELSE <<>>)]

\* ------------------------------------------------------ summarization texts
\* Summaries, prompts and reports are sequences of tokens; <<>> is the empty
\* string.
PLACEHOLDER == <<"no-content">>

\* parts.join(sep)
RECURSIVE join(_, _)
join(ps, sep) ==
  IF ps = <<>> THEN <<>>
  ELSE IF Len(ps) = 1 THEN ps[1]
  ELSE ps[1] \o sep \o join(Tail(ps), sep)

\* what the summarization endpoint can answer to one request; body is the
\* content of the first choice, <<>> when the answer holds none; a content is
\* one paragraph or two with a blank line between them
HttpOutcomes ==
  { [net |-> "error", status |-> 0, body |-> <<>>],
    [net |-> "ok", status |-> 500, body |-> <<"overloaded">>],
    [net |-> "ok", status |-> 200, body |-> <<>>],
    [net |-> "ok", status |-> 200, body |-> <<" ">>],
    [net |-> "ok", status |-> 200, body |-> <<"LLM", " ">>],
    [net |-> "ok", status |-> 200, body |-> <<"LLM", NL, NL, "LLM">>] }

\* chat(): the promise settles with the trimmed content of the first choice,
\* "" when there is none, or rejects
chat(o) ==
  IF o.net = "error" THEN [ok |-> FALSE, text |-> <<"Error: network">>]
  ELSE IF o.status >= 200 /\ o.status < 300
       THEN [ok |-> TRUE, text |-> trim(o.body)]
       ELSE [ok |-> FALSE, text |-> <<"Error: OpenAI HTTP", ToString(o.status)>> \o o.body]

commitChunkPrompt(meta, partIdx, total, patchText) ==
  [kind |-> "chunk", meta |-> meta, partIdx |-> partIdx, total |-> total,
   payload |-> <<patchText>>]

commitMergePrompt(meta, ps) ==
  [kind |-> "merge", meta |-> meta, partIdx |-> 0, total |-> Len(ps),
   payload |-> [n \in 1..Len(ps) |-> <<"part", ToString(n), NL>> \o ps[n]]]

\* the characters of a commit id: the name that tells the ids apart, six more
\* characters, and one that stands for the 33 after the seventh
shaChars(sha) == <<sha, "0", "0", "0", "0", "0", "0", "f">>

\* sha.slice(0, 7)
shortSha(sha) == slice(shaChars(sha), 0, 7)

weeklyItem(it) ==
  <<"[">> \o shortSha(it.meta.sha) \o <<"]">> \o it.meta.title \o <<"-">>
    \o it.meta.author \o <<"-">> \o join([n \in 1..Len(it.meta.branches) |-> <<it.meta.branches[n]>>], <<", ">>)
    \o <<NL>> \o it.summary

\* a prompt without the commits that got the placeholder
weeklyMergePromptNoPlaceholders(items) ==
  LET kept == SelectSeq(items, LAMBDA it : it.summary # PLACEHOLDER)
  IN [kind |-> "weekly", meta |-> <<>>, partIdx |-> 0, total |-> Len(kept),
      payload |-> [n \in 1..Len(kept) |-> weeklyItem(kept[n])]]

weeklyMergePrompt(items) ==
  [kind |-> "weekly", meta |-> <<>>, partIdx |-> 0, total |-> Len(items),
   payload |-> [n \in 1..Len(items) |-> weeklyItem(items[n])]]

\* partSummaries.push(sum || ...) and the catch branch of one chunk request
leafSummary(r, idx) ==
  IF r.ok
  THEN IF r.text # <<>> THEN r.text ELSE <<"leaf-empty", ToString(idx + 1)>>
  ELSE <<"leaf-failed", ToString(idx + 1)>> \o r.text

\* merged = await chat(...), or partSummaries.join("\n\n") when it rejects
commitSummary(r, ps) == IF r.ok THEN r.text ELSE join(ps, SEP)

weeklyFallbackItem(it) ==
  <<"[">> \o shortSha(it.meta.sha) \o <<"]">> \o it.meta.title \o <<"-">>
    \o join([n \in 1..Len(it.meta.branches) |-> <<it.meta.branches[n]>>], <<", ">>)
    \o <<NL>> \o it.summary

\* a fallback that leaves out the commits that got the placeholder
weeklyReportNoPlaceholders(r, items) ==
  LET kept == SelectSeq(items, LAMBDA it : it.summary # PLACEHOLDER)
  IN IF r.ok THEN r.text
     ELSE <<"weekly-failed", NL, NL>>
            \o join([n \in 1..Len(kept) |-> weeklyFallbackItem(kept[n])],
                    <<NL, NL, "---", NL, NL>>)

\* weekly = await chat(...), or the labelled concatenation when it rejects
weeklyReport(r, items) ==
  IF r.ok THEN r.text
  ELSE <<"weekly-failed", NL, NL>>
         \o join([n \in 1..Len(items) |-> weeklyFallbackItem(items[n])],
                 <<NL, NL, "---", NL, NL>>)

\* ------------------------------------------------------------------ dates
\* A Date read in the process's zone: the calendar day, counted from Thursday
\* 1970-01-01, and the second of that day.  setDate and setHours work on these
\* calendar fields; formatDateTimeLocal prints them to the second.
LastSecond == 86399   \* 23:59:59

getDay(d) == (d.day + 4) % 7   \* 0 is Sunday

setHours(d, sec) == [d EXCEPT !.sec = sec]

\* d.setDate(d.getDate() + n)
addDays(d, n) == [d EXCEPT !.day = @ + n]

\* an offset that takes Sunday for the day before Monday
offsetToMondayNaive(day) == day - 1

offsetToMonday(day) == (day + 6) % 7

startOfWeekOf(now) ==
  LET midnight == setHours(now, 0)
  IN addDays(midnight, 0 - offsetToMonday(getDay(midnight)))

sundayOf(start) == setHours(addDays(start, 6), LastSecond)

\* ------------------------------------------------------------------ state
VARIABLES
  nowLocal,             \* the instant the run starts at
  hasKey,               \* OPENAI_API_KEY is set
  hasWebhook,           \* LARK_WEBHOOK_URL is set
  PER_BRANCH_LIMIT,
  DIFF_CHUNK_MAX_CHARS,
  remoteBranches,       \* the tracked branches, in the order git lists them
  gitLog,               \* branch -> the in-window commits git lists, oldest first
  gitLogAll,            \* the in-window commits git lists with --all
  gitDiff,              \* sha -> the text git diff prints for the commit
  pc,
  startOfWeek,
  sunday,
  bi,                   \* position in remoteBranches
  branchToCommits,
  shaToBranches,
  allShasOrdered,
  commitShas,
  commitMetas,
  ci,                   \* position in commitMetas
  fullPatch,
  fileParts,
  pi,                   \* position in fileParts
  out,
  buf,
  chunks,
  si,                   \* the slicing loop's i
  li,                   \* the chunk loop's i
  partSummaries,
  perCommitFinal,
  weekly,
  inflight,             \* the requests awaiting an answer
  requests,             \* every prompt sent to the summarization service
  answers,              \* what chat() made of the answer to each of them
  shCalls,              \* every git command run
  larkPosts,            \* every payload posted to the webhook
  larkResult,           \* how the webhook request ended
  printed,              \* what the run wrote to the console
  exitCode              \* -1 while the process runs

envVars == <<nowLocal, hasKey, hasWebhook, PER_BRANCH_LIMIT, DIFF_CHUNK_MAX_CHARS,
             remoteBranches, gitLog, gitLogAll, gitDiff>>
collectVars == <<startOfWeek, sunday, bi, branchToCommits, shaToBranches, allShasOrdered, commitShas,
                 commitMetas>>
chunkVars == <<fullPatch, fileParts, pi, out, buf, chunks, si>>
sumVars == <<ci, li, partSummaries, perCommitFinal, weekly, inflight, requests,
             answers>>
ioVars == <<shCalls, larkPosts, larkResult, printed, exitCode>>
vars == <<envVars, collectVars, chunkVars, sumVars, ioVars, pc>>

\* ------------------------------------------------------------------ actions
\* sh(git diff ...): execSync(...).trim()
getDiff(sha) == trim(gitDiff[sha])

\* a start that does not look at the key
StartupNoKeyCheck ==
  /\ pc = "start"
  /\ pc' = "window"
  /\ UNCHANGED <<envVars, collectVars, chunkVars, sumVars, ioVars>>

\* if (!OPENAI_API_KEY) { console.error(...); process.exit(1) }
Startup ==
  /\ pc = "start"
  /\ IF hasKey
     THEN /\ pc' = "window"
          /\ UNCHANGED ioVars
     ELSE /\ pc' = "exited"
          /\ printed' = Append(printed, "Missing OPENAI_API_KEY")
          /\ exitCode' = 1
          /\ UNCHANGED <<shCalls, larkPosts, larkResult>>
  /\ UNCHANGED <<envVars, collectVars, chunkVars, sumVars>>

\* startOfWeek and sunday, from which since and until are printed
ResolveWindow ==
  /\ pc = "window"
  /\ startOfWeek' = startOfWeekOf(nowLocal)
  /\ sunday' = sundayOf(startOfWeekOf(nowLocal))
  /\ pc' = "fetch"
  /\ UNCHANGED <<envVars, bi, branchToCommits, shaToBranches, allShasOrdered,
                 commitShas, commitMetas, chunkVars, sumVars, ioVars>>

\* git fetch, whose failure is ignored, and the listing of the remote branches
Fetch ==
  /\ pc = "fetch"
  /\ \E fetched \in BOOLEAN :
       shCalls' = shCalls \o <<"git fetch", "git for-each-ref">>
  /\ pc' = "scan"
  /\ UNCHANGED <<envVars, collectVars, chunkVars, sumVars, larkPosts, larkResult,
                 printed, exitCode>>

\* one iteration of: for (const rb of remoteBranches)
ScanBranch ==
  /\ pc = "scan"
  /\ bi <= Len(remoteBranches)
  /\ LET rb == remoteBranches[bi]
     IN branchToCommits' =
          mapSet(branchToCommits, rb, sliceLast(gitLog[rb], PER_BRANCH_LIMIT))
  /\ bi' = bi + 1
  /\ shCalls' = Append(shCalls, "git log")
  /\ UNCHANGED <<envVars, startOfWeek, sunday, shaToBranches, allShasOrdered,
                 commitShas, commitMetas, chunkVars, sumVars, larkPosts,
                 larkResult, printed, exitCode, pc>>

\* the reverse map, built once every branch is scanned
Attribute ==
  /\ pc = "scan"
  /\ bi > Len(remoteBranches)
  /\ shaToBranches' = buildShaToBranches(<<>>, branchToCommits)
  /\ pc' = "union"
  /\ UNCHANGED <<envVars, startOfWeek, sunday, bi, branchToCommits,
                 allShasOrdered, commitShas, commitMetas, chunkVars, sumVars,
                 ioVars>>

\* allShasOrdered and its filter
Union ==
  /\ pc = "union"
  /\ allShasOrdered' = gitLogAll
  /\ commitShas' = filterShas(gitLogAll, {}, shaToBranches)
  /\ pc' = "collected"
  /\ shCalls' = Append(shCalls, "git log --all")
  /\ UNCHANGED <<envVars, startOfWeek, sunday, bi, branchToCommits,
                 shaToBranches, commitMetas, chunkVars, sumVars, larkPosts,
                 larkResult, printed, exitCode>>

\* the message without the exit
NoCommitsNoExit ==
  /\ pc = "collected"
  /\ commitShas = <<>>
  /\ printed' = Append(printed, "no commits this week")
  /\ pc' = "commit"
  /\ UNCHANGED <<envVars, collectVars, chunkVars, sumVars, shCalls, larkPosts,
                 larkResult, exitCode>>

\* if (commitShas.length === 0) { console.log(...); process.exit(0) }
NoCommits ==
  /\ pc = "collected"
  /\ commitShas = <<>>
  /\ printed' = Append(printed, "no commits this week")
  /\ exitCode' = 0
  /\ pc' = "exited"
  /\ UNCHANGED <<envVars, collectVars, chunkVars, sumVars, shCalls, larkPosts,
                 larkResult>>

\* commitMetas = commitShas.map(...)
ResolveMetas ==
  /\ pc = "collected"
  /\ commitShas # <<>>
  /\ commitMetas' = [n \in 1..Len(commitShas) |-> metaOf(commitShas[n], shaToBranches)]
  /\ shCalls' = shCalls \o Flatten([n \in 1..Len(commitShas) |-> <<"git show", "git show">>])
  /\ pc' = "commit"
  /\ UNCHANGED <<envVars, startOfWeek, sunday, bi, branchToCommits,
                 shaToBranches, allShasOrdered, commitShas, chunkVars, sumVars,
                 larkPosts, larkResult, printed, exitCode>>

\* the head of the loop over commitMetas: the diff, the placeholder for an
\* empty one, and the split into file parts
GetDiff ==
  /\ pc = "commit"
  /\ ci <= Len(commitMetas)
  /\ LET meta == commitMetas[ci]
         patch == getDiff(meta.sha)
     IN /\ fullPatch' = patch
        /\ IF patch = <<>> \/ trim(patch) = <<>>
           THEN /\ perCommitFinal' =
                     Append(perCommitFinal, [meta |-> meta, summary |-> PLACEHOLDER])
                /\ ci' = ci + 1
                /\ UNCHANGED <<fileParts, pi, out, buf, pc>>
           ELSE /\ fileParts' = splitPatchByFile(patch)
                /\ pi' = 1
                /\ out' = <<>>
                /\ buf' = <<>>
                /\ pc' = "chunk"
                /\ UNCHANGED <<perCommitFinal, ci>>
  /\ shCalls' = shCalls \o <<"git rev-list", "git diff">>
  /\ UNCHANGED <<envVars, collectVars, chunks, si, li, partSummaries, weekly,
                 inflight, requests, answers, larkPosts, larkResult, printed,
                 exitCode>>

\* one iteration of chunkBySize's loop over parts
ChunkIter ==
  /\ pc = "chunk"
  /\ pi <= Len(fileParts)
  /\ LET st == chunkStep(out, buf, fileParts[pi], DIFF_CHUNK_MAX_CHARS)
     IN /\ out' = st.out
        /\ buf' = st.buf
  /\ pi' = pi + 1
  /\ UNCHANGED <<envVars, collectVars, fullPatch, fileParts, chunks, si, sumVars,
                 ioVars, pc>>

\* The same loop with the slicing loop step by step, for the limits under which
\* slices() has no value: the body of one iteration up to the slicing loop
ChunkBody ==
  /\ pc = "chunk"
  /\ pi <= Len(fileParts)
  /\ LET p == fileParts[pi]
         candidate == candidateOf(buf, p)
         flushed == IF buf # <<>> THEN Append(out, buf) ELSE out
     IN IF Len(candidate) > DIFF_CHUNK_MAX_CHARS
        THEN IF Len(p) > DIFF_CHUNK_MAX_CHARS
             THEN /\ out' = flushed
                  /\ si' = 0
                  /\ pc' = "slice"
                  /\ UNCHANGED <<buf, pi>>
             ELSE /\ out' = flushed
                  /\ buf' = p
                  /\ pi' = pi + 1
                  /\ UNCHANGED <<si, pc>>
        ELSE /\ buf' = candidate
             /\ pi' = pi + 1
             /\ UNCHANGED <<out, si, pc>>
  /\ UNCHANGED <<envVars, collectVars, fullPatch, fileParts, chunks, sumVars, ioVars>>

\* one iteration of: for (let i = 0; i < p.length; i += limit) out.push(p.slice(i, i + limit))
SliceIter ==
  /\ pc = "slice"
  /\ si < Len(fileParts[pi])
  /\ Len(out) < MaxOut
  /\ out' = Append(out, slice(fileParts[pi], si, si + DIFF_CHUNK_MAX_CHARS))
  /\ si' = si + DIFF_CHUNK_MAX_CHARS
  /\ UNCHANGED <<envVars, collectVars, fullPatch, fileParts, pi, buf, chunks, sumVars,
                 ioVars, pc>>

\* the slicing loop ends; buf = ""
SliceDone ==
  /\ pc = "slice"
  /\ si >= Len(fileParts[pi])
  /\ buf' = <<>>
  /\ pi' = pi + 1
  /\ pc' = "chunk"
  /\ UNCHANGED <<envVars, collectVars, fullPatch, fileParts, out, chunks, si, sumVars,
                 ioVars>>

\* chunkBySize returns; the chunk loop of the commit starts
ChunkReturn ==
  /\ pc = "chunk"
  /\ pi > Len(fileParts)
  /\ chunks' = chunkFinish(out, buf)
  /\ partSummaries' = <<>>
  /\ li' = 0
  /\ pc' = "leaf"
  /\ UNCHANGED <<envVars, collectVars, fullPatch, fileParts, pi, out, buf, si, ci,
                 perCommitFinal, weekly, inflight, requests, answers, ioVars>>

\* chat(...) without the await: the loop goes on with the pending promise
LeafSendNoAwait ==
  /\ pc = "leaf"
  /\ li < Len(chunks)
  /\ LET prompt == commitChunkPrompt(commitMetas[ci], li + 1, Len(chunks), chunks[li + 1])
     IN /\ inflight' = inflight \cup {prompt}
        /\ requests' = Append(requests, prompt)
  /\ partSummaries' = Append(partSummaries, <<"[object Promise]">>)
  /\ li' = li + 1
  /\ UNCHANGED <<envVars, collectVars, chunkVars, ci, perCommitFinal, weekly,
                 answers, ioVars, pc>>

\* await chat(commitChunkPrompt(meta, i + 1, chunks.length, chunks[i])): sent
LeafSend ==
  /\ pc = "leaf"
  /\ li < Len(chunks)
  /\ LET prompt == commitChunkPrompt(commitMetas[ci], li + 1, Len(chunks), chunks[li + 1])
     IN /\ inflight' = inflight \cup {prompt}
        /\ requests' = Append(requests, prompt)
  /\ pc' = "leafWait"
  /\ UNCHANGED <<envVars, collectVars, chunkVars, ci, li, partSummaries,
                 perCommitFinal, weekly, answers, ioVars>>

\* a chunk request whose failure is not caught: it reaches the top-level catch
LeafSettleThrows ==
  /\ pc = "leafWait"
  /\ \E o \in HttpOutcomes :
       /\ answers' = Append(answers, chat(o))
       /\ IF chat(o).ok
          THEN /\ partSummaries' = Append(partSummaries, leafSummary(chat(o), li))
               /\ li' = li + 1
               /\ pc' = "leaf"
               /\ UNCHANGED <<printed, exitCode>>
          ELSE /\ printed' = Append(printed, "Error: chat")
               /\ exitCode' = 1
               /\ pc' = "exited"
               /\ UNCHANGED <<partSummaries, li>>
  /\ inflight' = {}
  /\ UNCHANGED <<envVars, collectVars, chunkVars, ci, perCommitFinal, weekly,
                 requests, shCalls, larkPosts, larkResult>>

\* the chunk request settles
LeafSettle ==
  /\ pc = "leafWait"
  /\ \E o \in HttpOutcomes :
       /\ partSummaries' = Append(partSummaries, leafSummary(chat(o), li))
       /\ answers' = Append(answers, chat(o))
  /\ inflight' = {}
  /\ li' = li + 1
  /\ pc' = "leaf"
  /\ UNCHANGED <<envVars, collectVars, chunkVars, ci, perCommitFinal, weekly,
                 requests, ioVars>>

\* await chat(commitMergePrompt(meta, partSummaries)): sent
MergeSend ==
  /\ pc = "leaf"
  /\ li >= Len(chunks)
  /\ LET prompt == commitMergePrompt(commitMetas[ci], partSummaries)
     IN /\ inflight' = inflight \cup {prompt}
        /\ requests' = Append(requests, prompt)
  /\ pc' = "mergeWait"
  /\ UNCHANGED <<envVars, collectVars, chunkVars, ci, li, partSummaries,
                 perCommitFinal, weekly, answers, ioVars>>

\* the merge request settles; perCommitFinal.push({ meta, summary: merged })
MergeSettle ==
  /\ pc = "mergeWait"
  /\ \E o \in HttpOutcomes :
       /\ perCommitFinal' =
            Append(perCommitFinal,
                   [meta |-> commitMetas[ci],
                    summary |-> commitSummary(chat(o), partSummaries)])
       /\ answers' = Append(answers, chat(o))
  /\ inflight' = {}
  /\ ci' = ci + 1
  /\ pc' = "commit"
  /\ UNCHANGED <<envVars, collectVars, chunkVars, li, partSummaries, weekly,
                 requests, ioVars>>

\* await chat(weeklyMergePrompt(weekLabel, perCommitFinal, ...)): sent
WeeklySend ==
  /\ pc = "commit"
  /\ ci > Len(commitMetas)
  /\ LET prompt == weeklyMergePrompt(perCommitFinal)
     IN /\ inflight' = inflight \cup {prompt}
        /\ requests' = Append(requests, prompt)
  /\ pc' = "weeklyWait"
  /\ UNCHANGED <<envVars, collectVars, chunkVars, ci, li, partSummaries,
                 perCommitFinal, weekly, answers, ioVars>>

\* the weekly request settles
WeeklySettle ==
  /\ pc = "weeklyWait"
  /\ \E o \in HttpOutcomes :
       /\ weekly' = weeklyReport(chat(o), perCommitFinal)
       /\ answers' = Append(answers, chat(o))
  /\ inflight' = {}
  /\ pc' = "dispatch"
  /\ UNCHANGED <<envVars, collectVars, chunkVars, ci, li, partSummaries,
                 perCommitFinal, requests, ioVars>>

\* postToLark(weekly): printed when no webhook is configured, posted otherwise
Dispatch ==
  /\ pc = "dispatch"
  /\ IF hasWebhook
     THEN /\ larkPosts' = Append(larkPosts, weekly)
          /\ pc' = "larkWait"
          /\ UNCHANGED <<printed, exitCode>>
     ELSE /\ printed' = printed \o <<"report:", "sent">>
          /\ exitCode' = 0
          /\ pc' = "exited"
          /\ UNCHANGED larkPosts
  /\ UNCHANGED <<shCalls, larkResult>>
  /\ UNCHANGED <<envVars, collectVars, chunkVars, sumVars>>

\* the webhook request ends: any response resolves the promise, a transport
\* error rejects it and reaches the top-level catch
LarkOutcomes == {"2xx", "non-2xx", "error"}

LarkSettle ==
  /\ pc = "larkWait"
  /\ \E o \in LarkOutcomes :
       /\ larkResult' = o
       /\ IF o = "error"
          THEN /\ printed' = Append(printed, "Error: webhook")
               /\ exitCode' = 1
          ELSE /\ printed' = Append(printed, "sent")
               /\ exitCode' = 0
  /\ pc' = "exited"
  /\ UNCHANGED <<envVars, collectVars, chunkVars, sumVars, shCalls, larkPosts>>

\* ------------------------------------------------------------------ inputs
SeqsUpTo(S, n) == UNION {[1..k -> S] : k \in 0..n}

NoDup(xs) == \A m, n \in 1..Len(xs) : xs[m] = xs[n] => m = n

\* xs can be had from ys by deleting elements
RECURSIVE IsSubseq(_, _)
IsSubseq(xs, ys) ==
  IF xs = <<>> THEN TRUE
  ELSE IF ys = <<>> THEN FALSE
  ELSE IF Head(xs) = Head(ys) THEN IsSubseq(Tail(xs), Tail(ys))
  ELSE IsSubseq(xs, Tail(ys))

\* the lines a patch is made of: blank, content, a header line, and a content
\* line that holds the header text after its first character
LineSet == {<<>>, <<"a">>, <<"b", "c">>, <<HD, "a">>, <<"a", HD>>}

Patches == {JoinLines(ls) : ls \in SeqsUpTo(LineSet, MaxLines)}

\* the instant of the runs whose window is not varied: a Wednesday at noon
RunNow == [day |-> 6, sec |-> 43200]

\* the program's variables before the run touches them
Fresh ==
  /\ startOfWeek = nowLocal
  /\ sunday = nowLocal
  /\ si = 0
  /\ answers = <<>>
  /\ shCalls = <<>>
  /\ larkResult = "none"
  /\ bi = 1
  /\ branchToCommits = <<>>
  /\ shaToBranches = <<>>
  /\ allShasOrdered = <<>>
  /\ commitShas = <<>>
  /\ ci = 1
  /\ fullPatch = <<>>
  /\ fileParts = <<>>
  /\ pi = 1
  /\ out = <<>>
  /\ buf = <<>>
  /\ chunks = <<>>
  /\ li = 0
  /\ partSummaries = <<>>
  /\ perCommitFinal = <<>>
  /\ weekly = <<>>
  /\ inflight = {}
  /\ requests = <<>>
  /\ larkPosts = <<>>
  /\ printed = <<>>
  /\ exitCode = -1

\* ---------------------------------------------------------- the Diff Chunker
\* One collected commit whose diff is any patch, chunked under any limit.
InitChunk ==
  /\ nowLocal = RunNow
  /\ Fresh
  /\ hasKey = TRUE
  /\ hasWebhook = FALSE
  /\ PER_BRANCH_LIMIT = 200
  /\ DIFF_CHUNK_MAX_CHARS \in 1..MaxLimit
  /\ remoteBranches = <<"origin/main">>
  /\ gitLog = [b \in Branches |-> IF b = "origin/main" THEN <<"c1">> ELSE <<>>]
  /\ gitLogAll = <<"c1">>
  /\ \E patch \in Patches : gitDiff = [s \in Shas |-> IF s = "c1" THEN patch ELSE <<>>]
  /\ commitMetas = <<metaOf("c1", [s \in {"c1"} |-> <<"origin/main">>])>>
  /\ pc = "commit"

NextChunk == GetDiff \/ ChunkIter \/ ChunkReturn

SpecChunk == InitChunk /\ [][NextChunk]_vars

\* ------------------------------------------- the Diff Chunker, step by step
\* One collected commit whose diff is any short patch, chunked under any limit
\* parseInt can give from 0 up.
SlicePatches == {JoinLines(ls) : ls \in SeqsUpTo(LineSet, MaxSliceLines)}

InitSlice ==
  /\ nowLocal = RunNow
  /\ Fresh
  /\ hasKey = TRUE
  /\ hasWebhook = FALSE
  /\ PER_BRANCH_LIMIT = 200
  /\ DIFF_CHUNK_MAX_CHARS \in 0..MaxSliceLimit
  /\ remoteBranches = <<"origin/main">>
  /\ gitLog = [b \in Branches |-> IF b = "origin/main" THEN <<"c1">> ELSE <<>>]
  /\ gitLogAll = <<"c1">>
  /\ \E patch \in SlicePatches :
       gitDiff = [s \in Shas |-> IF s = "c1" THEN patch ELSE <<>>]
  /\ commitMetas = <<metaOf("c1", [s \in {"c1"} |-> <<"origin/main">>])>>
  /\ pc = "commit"

NextSlice == GetDiff \/ ChunkBody \/ SliceIter \/ SliceDone \/ ChunkReturn

SpecSlice == InitSlice /\ [][NextSlice]_vars

\* ---------------------------------------------------- the Activity Collector
\* the tracked branches as git lists them: any one or two of them in any order,
\* or all three by ascending or by descending name
BranchLists ==
  {bs \in SeqsUpTo(Branches, 2) : NoDup(bs)}
    \cup {<<"origin/dev", "origin/main", "origin/rel">>,
          <<"origin/rel", "origin/main", "origin/dev">>}
LogLists == {xs \in SeqsUpTo(Shas, MaxLog) : NoDup(xs)}

InitCollect ==
  /\ nowLocal = RunNow
  /\ Fresh
  /\ hasKey = TRUE
  /\ hasWebhook = FALSE
  /\ PER_BRANCH_LIMIT \in 0..MaxBranchLimit
  /\ DIFF_CHUNK_MAX_CHARS = 80000
  /\ remoteBranches \in BranchLists
  /\ gitLogAll \in SeqsUpTo(Shas, MaxAll)
  \* --all covers every tracked branch, and both listings are oldest first
  /\ gitLog \in [Branches -> {xs \in LogLists : IsSubseq(xs, gitLogAll)}]
  /\ \A b \in Branches \ Range(remoteBranches) : gitLog[b] = <<>>
  /\ gitDiff = [s \in Shas |-> <<>>]
  /\ commitMetas = <<>>
  /\ pc = "scan"

NextCollect == ScanBranch \/ Attribute \/ Union \/ NoCommits \/ ResolveMetas

SpecCollect == InitCollect /\ [][NextCollect]_vars

\* ------------------------------------------------------ the Window Resolver
MaxDay == 20   \* the runs start on one of the days 0..MaxDay

\* the seconds of the day a run starts at: the first two, noon, the last two
DaySeconds == {0, 1, 43200, LastSecond - 1, LastSecond}

InitWindow ==
  /\ nowLocal \in [day : 0..MaxDay, sec : DaySeconds]
  /\ Fresh
  /\ hasKey = TRUE
  /\ hasWebhook = FALSE
  /\ PER_BRANCH_LIMIT = 200
  /\ DIFF_CHUNK_MAX_CHARS = 80000
  /\ remoteBranches = <<>>
  /\ gitLog = [b \in Branches |-> <<>>]
  /\ gitLogAll = <<>>
  /\ gitDiff = [s \in Shas |-> <<>>]
  /\ commitMetas = <<>>
  /\ pc = "window"

NextWindow == ResolveWindow

SpecWindow == InitWindow /\ [][NextWindow]_vars

\* ------------------------------------------------------------ the whole run
RunChunkLimit == 2   \* DIFF_CHUNK_MAX_CHARS of the runs

\* the diffs of the runs: none, header lines only, one chunk, two chunks
RunPatches ==
  { <<>>,
    <<HD, "a">>,
    <<HD, "a", NL, "b", "c">>,
    <<HD, "a", NL, "a", NL, HD, "a", NL, "b", "c">> }

\* the diffs of the second commit of a run: none, one chunk
RunLaterPatches == {<<>>, <<HD, "a", NL, "b", "c">>}

\* the histories of the runs: what git lists with --all and for each branch
RunHistories ==
  { [all |-> <<>>, dev |-> <<>>, main |-> <<>>],
    [all |-> <<"c3">>, dev |-> <<>>, main |-> <<>>],
    [all |-> <<"c1">>, dev |-> <<>>, main |-> <<"c1">>],
    [all |-> <<"c1", "c2">>, dev |-> <<"c2">>, main |-> <<"c1", "c2">>] }

Init ==
  /\ nowLocal = RunNow
  /\ Fresh
  /\ hasKey \in BOOLEAN
  /\ hasWebhook \in BOOLEAN
  /\ PER_BRANCH_LIMIT = 200
  /\ DIFF_CHUNK_MAX_CHARS = RunChunkLimit
  /\ remoteBranches = <<"origin/main", "origin/dev">>
  /\ \E h \in RunHistories :
       /\ gitLogAll = h.all
       /\ gitLog = [b \in Branches |->
                      IF b = "origin/main" THEN h.main
                      ELSE IF b = "origin/dev" THEN h.dev ELSE <<>>]
       /\ gitDiff \in [Shas -> RunPatches]
       /\ gitDiff["c2"] \in RunLaterPatches
       /\ \A sha \in Shas \ Range(h.all) : gitDiff[sha] = <<>>
  /\ commitMetas = <<>>
  /\ pc = "start"

Next ==
  \/ Startup
  \/ ResolveWindow
  \/ Fetch
  \/ ScanBranch
  \/ Attribute
  \/ Union
  \/ NoCommits
  \/ ResolveMetas
  \/ GetDiff
  \/ ChunkIter
  \/ ChunkReturn
  \/ LeafSend
  \/ LeafSettle
  \/ MergeSend
  \/ MergeSettle
  \/ WeeklySend
  \/ WeeklySettle
  \/ Dispatch
  \/ LarkSettle

Spec == Init /\ [][Next]_vars

\* ------------------------------------------------------------- run claims
\* the chunks the code computes for the diff of a commit
ChunksOf(sha) == chunkBySize(splitPatchByFile(getDiff(sha)), DIFF_CHUNK_MAX_CHARS)

\* C3: the report a run hands to the dispatch is never the empty text,
\* whatever the summarization calls answered.
C3_ReportNonEmpty == pc \in {"dispatch", "larkWait"} => weekly # <<>>

\* C6: a commit without chunks gets the placeholder summary, and no prompt
\* sent to the summarization service is about it.
C6_NoRequestForZeroChunks ==
  /\ \A n \in 1..Len(perCommitFinal) :
       ChunksOf(perCommitFinal[n].meta.sha) = <<>> =>
         perCommitFinal[n].summary = PLACEHOLDER
  /\ \A n \in 1..Len(requests) :
       requests[n].kind \in {"chunk", "merge"} =>
         ChunksOf(requests[n].meta.sha) # <<>>

\* no tracked branch lists a commit in the window
NoTrackedCommit == \A n \in 1..Len(remoteBranches) : gitLog[remoteBranches[n]] = <<>>

\* C11: when no tracked branch has a commit in the window, the run ends with
\* exit code 0 at the end of the collection: no request to the summarization
\* service, no report and no dispatch, ever.
C11_NoActivityExit ==
  (hasKey /\ NoTrackedCommit) =>
    /\ pc \in {"start", "window", "fetch", "scan", "union", "collected", "exited"}
    /\ (pc = "collected" => commitShas = <<>>)
    /\ (pc = "exited" => exitCode = 0)
    /\ requests = <<>>
    /\ inflight = {}
    /\ perCommitFinal = <<>>
    /\ weekly = <<>>
    /\ larkPosts = <<>>
    /\ Range(printed) \cap {"report:", "sent"} = {}

\* the run has ended that way although git lists a commit of an untracked ref
C11_Witness ==
  /\ pc = "exited"
  /\ hasKey
  /\ NoTrackedCommit
  /\ gitLogAll # <<>>
  /\ exitCode = 0
  /\ printed = <<"no commits this week">>

\* C12: without the credential the run ends with a non-zero exit code before
\* any work: no git command, no request to the summarization service, no
\* dispatch.
C12_MissingKeyExit ==
  ~hasKey =>
    /\ pc \in {"start", "exited"}
    /\ (pc = "exited" => exitCode > 0)
    /\ shCalls = <<>>
    /\ requests = <<>>
    /\ inflight = {}
    /\ larkPosts = <<>>

\* the run has ended that way although there were commits to report and a
\* webhook to report them to
C12_Witness ==
  /\ ~hasKey
  /\ hasWebhook
  /\ ~NoTrackedCommit
  /\ pc = "exited"
  /\ exitCode = 1
  /\ printed = <<"Missing OPENAI_API_KEY">>

\* C13: a delivery that failed, by a transport error or by an answer that is
\* not a success, ends the run with a non-zero exit code, and the run never
\* says the report was sent.
C13_DispatchFailureSurfaced ==
  larkResult \in {"non-2xx", "error"} =>
    /\ exitCode > 0
    /\ "sent" \notin Range(printed)

\* the positions in requests of the merge requests about commits with chunks
MergesWithChunks ==
  {m \in 1..Len(requests) : requests[m].kind = "merge" /\ requests[m].total >= 1}

\* leaf summary i as the merge request at position m carries it, without the
\* three tokens of its label
MergedLeaf(m, i) ==
  LET entry == requests[m].payload[i] IN SubSeq(entry, 4, Len(entry))

\* C15: for a commit with k >= 1 chunks, a chunk request that fails does not
\* end the run: its leaf summary is a fallback that names its position and
\* holds the reason, the k chunk requests are all issued, in order, and then
\* one merge request that carries the k leaf summaries in order, and the
\* commit gets a summary.
C15_ChunkFailureContained ==
  LET merges == MergesWithChunks
  IN /\ \A m \in merges :
          LET sha == requests[m].meta.sha
              cs == ChunksOf(sha)
              k == Len(cs)
          IN /\ m > k
             /\ Len(requests[m].payload) = k
             /\ \A i \in 1..k :
                  LET q == requests[m - k + i - 1]
                      a == answers[m - k + i - 1]
                      leaf == MergedLeaf(m, i)
                  IN /\ q.kind = "chunk"
                     /\ q.meta.sha = sha
                     /\ q.partIdx = i
                     /\ q.payload = <<cs[i]>>
                     /\ ~a.ok =>
                          /\ leaf[1] = "leaf-failed"
                          /\ leaf[2] = ToString(i)
                          /\ SubSeq(leaf, 3, Len(leaf)) = a.text
                     /\ (a.ok /\ a.text # <<>>) => leaf = a.text
             /\ \A m2 \in merges : requests[m2].meta.sha = sha => m2 = m
             /\ m <= Len(answers) =>
                  \E n \in 1..Len(perCommitFinal) : perCommitFinal[n].meta.sha = sha
     /\ \A n \in 1..Len(answers) :
          (requests[n].kind = "chunk" /\ ~answers[n].ok) =>
            /\ pc = "exited" => (exitCode = 0 \/ larkResult = "error")
            /\ pc \in {"exited", "dispatch", "larkWait"} =>
                 \E m \in merges :
                   /\ requests[m].meta.sha = requests[n].meta.sha
                   /\ m <= Len(answers)

\* a commit of two chunks whose first chunk request failed and whose second
\* succeeded has had its merge request answered
C15_Witness ==
  \E m \in MergesWithChunks :
    /\ requests[m].total = 2
    /\ m <= Len(answers)
    /\ ~answers[m - 2].ok
    /\ answers[m - 1].ok
    /\ answers[m - 1].text # <<>>
    /\ MergedLeaf(m, 1)[1] = "leaf-failed"
    /\ Len(perCommitFinal) >= 1

\* the position of a collected commit
CommitIndex(sha) == CHOOSE j \in 1..Len(commitMetas) : commitMetas[j].sha = sha

\* request n comes where the order of the run puts it: chunk 1 of a commit (or
\* the merge of a commit without chunks) first or after the merge of an earlier
\* commit, chunk i > 1 after chunk i - 1, the merge after the last chunk
InOrder(n) ==
  LET q == requests[n]
      first == n = 1 \/ ( /\ requests[n - 1].kind = "merge"
                          /\ CommitIndex(requests[n - 1].meta.sha) < CommitIndex(q.meta.sha) )
      afterChunk(i) == /\ n > 1
                       /\ requests[n - 1].kind = "chunk"
                       /\ requests[n - 1].meta.sha = q.meta.sha
                       /\ requests[n - 1].partIdx = i
  IN IF q.kind = "chunk"
     THEN /\ q.partIdx \in 1..q.total
          /\ IF q.partIdx = 1 THEN first ELSE afterChunk(q.partIdx - 1)
     ELSE IF q.kind = "merge"
     THEN IF q.total = 0 THEN first ELSE afterChunk(q.total)
     ELSE n = Len(requests)

\* C16: at most one request to the summarization service is in flight; a
\* request is issued only when every earlier one has been answered; the
\* requests come in the order chunks 1..k then merge, commit after commit; and
\* no request about commit j + 1 exists before commit j has its summary.
C16_OneRequestAtATime ==
  /\ Cardinality(inflight) <= 1
  /\ Len(requests) - Len(answers) = Cardinality(inflight)
  /\ \A n \in 1..Len(requests) :
       /\ InOrder(n)
       /\ requests[n].kind \in {"chunk", "merge"} =>
            Len(perCommitFinal) >= CommitIndex(requests[n].meta.sha) - 1

\* the first chunk request of the second commit is in flight, after the two
\* chunk requests and the merge request of the first
C16_Witness ==
  /\ Len(commitMetas) = 2
  /\ Len(requests) = 4
  /\ requests[1].total = 2
  /\ requests[4].kind = "chunk"
  /\ requests[4].meta.sha = commitMetas[2].sha
  /\ inflight = {requests[4]}
  /\ Len(answers) = 3
  /\ Len(perCommitFinal) = 1

\* the positions in requests of the window-level merge requests
WeeklyRequests == {n \in 1..Len(requests) : requests[n].kind = "weekly"}

StartsWith(s, p) == Len(s) >= Len(p) /\ SubSeq(s, 1, Len(p)) = p

HasSuffix(s, p) == Len(s) >= Len(p) /\ SubSeq(s, Len(s) - Len(p) + 1, Len(s)) = p

\* p occurs in s
Contains(s, p) == \E i \in 0..(Len(s) - Len(p)) : SubSeq(s, i + 1, i + Len(p)) = p

BranchList(meta) == join([n \in 1..Len(meta.branches) |-> <<meta.branches[n]>>], <<", ">>)

\* entry j of the window-level merge request q is about collected commit j:
\* its title, author, branches and summary
WeeklyEntryOf(q, j) ==
  LET e == q.payload[j]
      meta == commitMetas[j]
  IN /\ meta.sha = commitShas[j]
     /\ perCommitFinal[j].meta = meta
     /\ Contains(e, meta.title \o <<"-">> \o meta.author \o <<"-">> \o BranchList(meta))
     /\ HasSuffix(e, <<NL>> \o perCommitFinal[j].summary)

\* the run is past the loop over the commits
PastCommits ==
  \/ pc \in {"weeklyWait", "dispatch", "larkWait"}
  \/ pc = "exited" /\ hasKey /\ commitShas # <<>>

WeeklyOnceInOrder(carriesId(_, _)) ==
  /\ Cardinality(WeeklyRequests) <= 1
  /\ PastCommits => WeeklyRequests # {}
  /\ \A n \in WeeklyRequests :
       /\ Len(perCommitFinal) = Len(commitMetas)
       /\ Len(requests[n].payload) = Len(commitMetas)
       /\ \A j \in 1..Len(commitMetas) :
            /\ WeeklyEntryOf(requests[n], j)
            /\ carriesId(requests[n].payload[j], commitMetas[j].sha)

CarriesFullId(e, sha) == Contains(e, shaChars(sha))
CarriesShortId(e, sha) == StartsWith(e, <<"[">> \o SubSeq(shaChars(sha), 1, 7) \o <<"]">>)

\* C17 as stated: a run with at least one collected commit issues exactly one
\* window-level merge request, after every commit has its summary, with one
\* entry per collected commit in collected order, each with the commit's id,
\* title, author, branches and summary.
C17_WeeklyCarriesId == WeeklyOnceInOrder(CarriesFullId)

\* C17 as amended: the same, each entry with the first 7 characters of the
\* commit's id in place of the id.
C17_WeeklyMergeOnce == WeeklyOnceInOrder(CarriesShortId)

\* the request was issued for two commits, the first with the placeholder
\* summary, the second with a merged one
C17_Witness ==
  /\ Len(commitMetas) = 2
  /\ WeeklyRequests # {}
  /\ perCommitFinal[1].summary = PLACEHOLDER
  /\ perCommitFinal[2].summary = <<"LLM">>
  /\ pc = "weeklyWait"

\* the window-level merge request was answered with a failure
WeeklyFailed == \E n \in WeeklyRequests : n <= Len(answers) /\ ~answers[n].ok

\* the pieces of s between its "---" tokens
RECURSIVE PiecesFrom(_, _, _)
PiecesFrom(s, i, piece) ==
  IF i > Len(s) THEN <<piece>>
  ELSE IF s[i] = "---" THEN <<piece>> \o PiecesFrom(s, i + 1, <<>>)
  ELSE PiecesFrom(s, i + 1, Append(piece, s[i]))

Pieces(s) == PiecesFrom(s, 1, <<>>)

\* a piece of the degraded report is about the commit of it: the short id,
\* the title and the branches, a line feed, then the summary, between the blank
\* lines of the delimiter
FallbackEntryOf(piece, first, last, it) ==
  LET lead == IF first THEN <<"weekly-failed", NL, NL>> ELSE <<NL, NL>>
      tail == IF last THEN <<>> ELSE <<NL, NL>>
  IN piece = lead \o <<"[">> \o SubSeq(shaChars(it.meta.sha), 1, 7) \o <<"]">>
               \o it.meta.title \o <<"-">> \o BranchList(it.meta)
               \o <<NL>> \o it.summary \o tail

\* C18: when the window-level merge request fails, the report starts with the
\* label of a degraded report and then holds the summary of every collected
\* commit, in collected order, each after its commit's short id, title and
\* branches, with the delimiter between consecutive commits.
C18_WeeklyFallback ==
  WeeklyFailed =>
    LET ps == Pieces(weekly)
    IN /\ Len(perCommitFinal) = Len(commitMetas)
       /\ Len(ps) = Len(commitMetas)
       /\ \A j \in 1..Len(ps) :
            /\ perCommitFinal[j].meta = commitMetas[j]
            /\ FallbackEntryOf(ps[j], j = 1, j = Len(ps), perCommitFinal[j])

\* the degraded report of two commits, the first with the placeholder summary,
\* is about to be dispatched
C18_Witness ==
  /\ WeeklyFailed
  /\ pc = "dispatch"
  /\ Len(commitMetas) = 2
  /\ perCommitFinal[1].summary = PLACEHOLDER
  /\ perCommitFinal[2].summary # <<>>
  /\ Len(Pieces(weekly)) = 2

\* the positions in requests of the merge requests answered with a failure
FailedMerges ==
  {m \in 1..Len(requests) :
     requests[m].kind = "merge" /\ m <= Len(answers) /\ ~answers[m].ok}

\* the summary the run recorded for a commit
SummaryOf(sha) ==
  LET n == CHOOSE n \in 1..Len(perCommitFinal) : perCommitFinal[n].meta.sha = sha
  IN perCommitFinal[n].summary

\* the lists of k leaf summaries the chunk requests of a commit can leave
LeafLists(k) == [1..k -> UNION {{leafSummary(chat(o), i - 1) : o \in HttpOutcomes} : i \in 1..k}]

\* C19: when the merge request of a commit fails, the summary of the commit
\* is its leaf summaries in chunk order with the delimiter between consecutive
\* ones, none dropped, and it tells where each leaf starts and ends: no other
\* list of as many leaf summaries gives the same text.
C19_MergeFallbackDelimited ==
  \A m \in FailedMerges :
    LET k == requests[m].total
        leaves == [i \in 1..k |-> MergedLeaf(m, i)]
        summary == SummaryOf(requests[m].meta.sha)
    IN /\ summary = join(leaves, SEP)
       /\ \A other \in LeafLists(k) : join(other, SEP) = summary => other = leaves

\* ------------------------------------------------------------ chunker claims
Limit == DIFF_CHUNK_MAX_CHARS
Chunked == pc = "leaf"

\* the text with every "\n\n" taken out, left to right
RECURSIVE StripSep(_)
StripSep(s) ==
  IF Len(s) < 2 THEN s
  ELSE IF s[1] = NL /\ s[2] = NL THEN StripSep(SubSeq(s, 3, Len(s)))
  ELSE <<s[1]>> \o StripSep(Tail(s))

\* the text without its blank characters
RECURSIVE NonWs(_)
NonWs(s) ==
  IF s = <<>> THEN <<>>
  ELSE IF IsWs(Head(s)) THEN NonWs(Tail(s))
  ELSE <<Head(s)>> \o NonWs(Tail(s))

CeilDiv(n, d) == (n + d - 1) \div d

EndsWith(s, t) == Len(t) <= Len(s) /\ SubSeq(s, Len(s) - Len(t) + 1, Len(s)) = t

\* cs is us cut the way the contract allows: a unit longer than lim alone in
\* consecutive chunks, every other unit whole, joined by SEP with its
\* neighbours, in one chunk
RECURSIVE WholeUnits(_, _, _)
WholeUnits(cs, us, lim) ==
  IF us = <<>> THEN cs = <<>>
  ELSE IF cs = <<>> THEN FALSE
  ELSE IF Len(us[1]) > lim
       THEN LET k == CeilDiv(Len(us[1]), lim)
            IN /\ Len(cs) >= k
               /\ Flatten(SubSeq(cs, 1, k)) = us[1]
               /\ WholeUnits(SubSeq(cs, k + 1, Len(cs)), Tail(us), lim)
       ELSE \E m \in 1..Len(us) :
              /\ \A j \in 1..m : Len(us[j]) <= lim
              /\ cs[1] = join(SubSeq(us, 1, m), SEP)
              /\ WholeUnits(Tail(cs), SubSeq(us, m + 1, Len(us)), lim)

\* C1: every chunk chunkBySize has emitted or is still building, and every
\* chunk it returns, is at most Limit characters long.
C1_ChunkSizeBound ==
  /\ \A n \in 1..Len(out) : Len(out[n]) <= Limit
  /\ Len(buf) <= Limit
  /\ \A n \in 1..Len(chunks) : Len(chunks[n]) <= Limit

\* two units packed into one chunk, then a unit longer than the limit sliced
C1_Witness ==
  /\ Chunked
  /\ Len(fileParts) = 3
  /\ Len(fileParts[3]) > Limit
  /\ chunks[1] = fileParts[1] \o SEP \o fileParts[2]
  /\ Len(chunks) = 3
  /\ Len(chunks[2]) = Limit

\* C2: while the loop runs, the chunks emitted so far followed by the buffer
\* are, once the join separators are taken out, the units consumed so far in
\* their order; the returned chunks are all the units.
C2_ChunksReproduceUnits ==
  /\ pc = "chunk" =>
       StripSep(Flatten(out) \o buf) = StripSep(Flatten(SubSeq(fileParts, 1, pi - 1)))
  /\ Chunked => StripSep(Flatten(chunks)) = StripSep(Flatten(fileParts))

\* a unit packed with its predecessor, a unit carried over after a flush, and
\* a unit sliced, in one run
C2_Witness ==
  /\ Chunked
  /\ Len(fileParts) >= 3
  /\ Len(chunks) >= 3
  /\ chunks[1] = fileParts[1] \o SEP \o fileParts[2]
  /\ \E n \in 1..Len(fileParts) : Len(fileParts[n]) > Limit

\* C7: in the returned chunks every unit of at most Limit characters lies
\* whole in one chunk, and only a unit longer than Limit is cut.
C7_UnitsNotSplit == Chunked => WholeUnits(chunks, fileParts, Limit)

\* a unit of exactly Limit characters, kept whole between two other units
C7_Witness ==
  /\ Chunked
  /\ Len(fileParts) = 3
  /\ Len(fileParts[2]) = Limit
  /\ chunks = fileParts

\* C8: right after the loop has consumed a unit p longer than Limit, the
\* buffer is empty and the last ceil(Len(p)/Limit) chunks are p cut in order,
\* each but the last exactly Limit long; a buffer pending before p was
\* flushed as the chunk just before them.
C8_OversizedUnitSliced ==
  (pc = "chunk" /\ pi > 1 /\ Len(fileParts[pi - 1]) > Limit) =>
    LET p == fileParts[pi - 1]
        k == CeilDiv(Len(p), Limit)
        base == Len(out) - k
    IN /\ buf = <<>>
       /\ base >= 0
       /\ Flatten(SubSeq(out, base + 1, Len(out))) = p
       /\ \A j \in 1..(k - 1) : Len(out[base + j]) = Limit
       /\ Len(out[Len(out)]) = Len(p) - (k - 1) * Limit
       /\ (pi > 2 /\ Len(fileParts[pi - 2]) <= Limit) =>
            (base >= 1 /\ EndsWith(out[base], fileParts[pi - 2]))

\* one unit of 3.5 times the limit after a pending buffer: the buffer's
\* chunk, then chunks of 2, 2, 2 and 1 characters
C8_Witness ==
  /\ pc = "chunk"
  /\ pi = 3
  /\ Limit = 2
  /\ Len(fileParts[2]) = 7
  /\ Len(out) = 5
  /\ out[1] = fileParts[1]
  /\ buf = <<>>

\* C9: the returned chunks hold, blank characters aside, all of the diff,
\* header lines included.
C9_AllContentDelivered == Chunked => NonWs(Flatten(chunks)) = NonWs(fullPatch)

\* ---------------------------------------------------------- collector claims
\* the commits retained for a scanned branch
Retained(b) ==
  IF \E n \in 1..Len(branchToCommits) : branchToCommits[n].rb = b
  THEN (CHOOSE e \in Range(branchToCommits) : e.rb = b).shas
  ELSE <<>>

\* the branches whose retained scan lists the commit
BranchesOf(sha) == {b \in Range(remoteBranches) : sha \in Range(Retained(b))}

FirstIndex(xs, x) == CHOOSE n \in 1..Len(xs) : xs[n] = x /\ \A m \in 1..(n - 1) : xs[m] # x

Ascending(bs) == \A m, n \in 1..Len(bs) : m < n => BranchRank(bs[m]) < BranchRank(bs[n])

\* C4: every commit in a retained scan is collected exactly once, and the
\* branches of a collected commit are, in ascending order and without
\* repetition, the tracked branches whose retained scan lists it.
C4_BranchAttribution ==
  pc = "commit" =>
    /\ \A sha \in Shas :
         BranchesOf(sha) # {} =>
           Cardinality({n \in 1..Len(commitMetas) : commitMetas[n].sha = sha}) = 1
    /\ \A n \in 1..Len(commitMetas) :
         /\ Range(commitMetas[n].branches) = BranchesOf(commitMetas[n].sha)
         /\ Ascending(commitMetas[n].branches)

\* three branches scanned in descending order; one commit on two of them only
C4_Witness ==
  /\ pc = "commit"
  /\ remoteBranches = <<"origin/rel", "origin/main", "origin/dev">>
  /\ PER_BRANCH_LIMIT = 1
  /\ \E n \in 1..Len(commitMetas) :
       commitMetas[n].branches = <<"origin/dev", "origin/main">>
  /\ Len(gitLog["origin/rel"]) = 2
  /\ Len(Retained("origin/rel")) = 1

\* C5: the collected commits are the ids of the --all listing that some
\* retained scan lists, each once, in the order of their first occurrence in
\* that listing.
C5_GlobalOrder ==
  pc \in {"collected", "commit"} =>
    /\ Range(commitShas) = {sha \in Range(gitLogAll) : BranchesOf(sha) # {}}
    /\ NoDup(commitShas)
    /\ \A m, n \in 1..Len(commitShas) :
         m < n => FirstIndex(gitLogAll, commitShas[m]) < FirstIndex(gitLogAll, commitShas[n])

\* the branch scanned first holds the later commit, and the --all listing
\* holds a commit no tracked branch lists
C5_Witness ==
  /\ pc = "collected"
  /\ PER_BRANCH_LIMIT >= 1
  /\ Len(remoteBranches) = 2
  /\ Len(commitShas) = 2
  /\ Retained(remoteBranches[1]) = <<commitShas[2]>>
  /\ Retained(remoteBranches[2]) = <<commitShas[1]>>
  /\ Len(gitLogAll) = 3
  /\ \E sha \in Range(gitLogAll) : BranchesOf(sha) = {}

\* C10: a branch retains at most PER_BRANCH_LIMIT commits, and exactly the
\* last PER_BRANCH_LIMIT of its listing when the listing is longer.
C10_RetainedAtMostLimit ==
  \A n \in 1..Len(branchToCommits) :
    LET rb == branchToCommits[n].rb
        kept == branchToCommits[n].shas
        listed == gitLog[rb]
    IN /\ Len(kept) <= PER_BRANCH_LIMIT
       /\ Len(listed) > PER_BRANCH_LIMIT =>
            kept = SubSeq(listed, Len(listed) - PER_BRANCH_LIMIT + 1, Len(listed))

\* ------------------------------------------------------------ window claims
IsMonday(d) == d.day % 7 = 4   \* day 0 is a Thursday
IsSunday(d) == d.day % 7 = 3

NotAfter(a, b) == a.day < b.day \/ (a.day = b.day /\ a.sec <= b.sec)

\* C14: whatever the instant and the weekday a run starts on, the window starts
\* on a Monday at 00:00:00, ends on the Sunday six days later at 23:59:59, and
\* the instant lies between the two.
C14_WindowIsTheWeek ==
  pc = "fetch" =>
    /\ IsMonday(startOfWeek)
    /\ startOfWeek.sec = 0
    /\ IsSunday(sunday)
    /\ sunday.day = startOfWeek.day + 6
    /\ sunday.sec = LastSecond
    /\ NotAfter(startOfWeek, nowLocal)
    /\ NotAfter(nowLocal, sunday)

\* a run that starts in the last second of a Sunday: the window ends with it
C14_Witness ==
  /\ pc = "fetch"
  /\ IsSunday(nowLocal)
  /\ nowLocal.sec = LastSecond
  /\ sunday = nowLocal
  /\ startOfWeek = [day |-> nowLocal.day - 6, sec |-> 0]

\* ------------------------------------------------- step-by-step chunker claims
\* C20: chunkBySize terminates with a finite sequence of chunks for every list
\* of non-empty units and every limit the configuration can give, 0 included:
\* each iteration of the slicing loop moves its index forward, so the loop,
\* bounded by the length of the unit, ends.
C20_SlicingAdvances == [][(pc = "slice" /\ pc' = "slice") => si' > si]_vars

====
